---- MODULE Spec2Model ----
(***************************************************************************)
(* Model of the waypoint_updater node (ros/src/waypoint_updater).          *)
(*                                                                         *)
(* Numbers.  The node computes with floating point reals.  The model is    *)
(* exact: coordinates, the ego velocity and the cruise velocity are        *)
(* integers, the routes are chosen so that every Euclidean length the node *)
(* evaluates is an integer (Sqrt has no value otherwise), and every other  *)
(* quantity is a rational <<numerator, denominator>> in lowest terms.      *)
(* A waypoint velocity w = sqrt(q) is stored as its square q (field v2):   *)
(* on the non-negative reals w1 <= w2 iff q1 <= q2, w = 0 iff q = 0 and    *)
(* min(T, sqrt(q))^2 = min(T^2, q) for T >= 0.                             *)
(* Indices are 0-based as in the source.                                   *)
(***************************************************************************)
EXTENDS Integers, Sequences, FiniteSets, TLC

VARIABLES vehicle_position, waypoints, waypoints_2d, waypoints_tree,
          v, TARGET_V, stop_waypoint, stop_x, stop_y,
          pc, pub, tick

\* the dbw_node node (ros/src/twist_controller/dbw_node.py): its fields,
\* the wall clock, the controller it owns, the position of its loop and of
\* a twist_cb in progress, the locals and the publications of the current
\* iteration, and what the earlier iterations did
VARIABLES dbw_enabled, goal_linear_v, goal_angular_v, current_linear_v, stop_a,
          prev_time, dt, now, controller, dbw_pc, twist_pc, dbw_loc, cmds, hist

\* the waypoint_updater callbacks and tick taken statement by statement:
\* the locals of the tick and the callbacks in progress
VARIABLES wu_loc, cb

node == <<vehicle_position, waypoints, waypoints_2d, waypoints_tree,
          v, TARGET_V, stop_waypoint, stop_x, stop_y>>
wuVars == <<vehicle_position, waypoints, waypoints_2d, waypoints_tree,
            v, TARGET_V, stop_waypoint, stop_x, stop_y, pc, pub, tick>>
dbwVars == <<dbw_enabled, goal_linear_v, goal_angular_v, current_linear_v, stop_a,
             prev_time, dt, now, controller, dbw_pc, twist_pc, dbw_loc, cmds, hist>>
raceVars == <<wu_loc, cb>>
vars == <<wuVars, dbwVars, raceVars>>

----------------------------------------------------------------------------
(* Program constants                                                       *)
LOOKAHEAD_WPS == 50
MIN_LOOKAHEAD_DIST == 10
COMFORT_DECEL == 3
COMFORT_ACCEL == 5
\* generate_stop_trajectory: "if stop_line_dist < 3: a = 1"
NEAR_LINE_DIST == 3
NEAR_LINE_DECEL == 1
\* generate_stop_trajectory: max(0.001, t); the floor is 1/EPS_INV
EPS_INV == 1000

(* Bounds of the inputs                                                    *)
MaxVel == 10
MaxTargetV == 8

----------------------------------------------------------------------------
(* Python values                                                           *)
None == <<>>
Some(x) == <<x>>
Val(o) == o[1]

\* seq[i] of Python, negative indices counted from the end
PyIndex(seq, i) == IF i < 0 THEN seq[Len(seq) + i + 1] ELSE seq[i + 1]
\* a slice that runs to the end of the list whatever hi is
PySlice_NoCap(seq, lo, hi) ==
    IF lo >= Len(seq) THEN <<>> ELSE SubSeq(seq, lo + 1, Len(seq))

\* seq[lo : hi] of Python for 0 <= lo
PySlice(seq, lo, hi) ==
    LET h == IF hi > Len(seq) THEN Len(seq) ELSE hi
    IN  IF lo >= h THEN <<>> ELSE SubSeq(seq, lo + 1, h)

----------------------------------------------------------------------------
(* Exact arithmetic                                                        *)
Abs(n) == IF n < 0 THEN -n ELSE n

RECURSIVE GCD(_, _)
GCD(a, b) == IF b = 0 THEN a ELSE GCD(b, a % b)

\* the rational n/d (d # 0) in lowest terms with a positive denominator
Rat(n, d) ==
    LET g == GCD(Abs(n), Abs(d))
        s == IF d < 0 THEN -1 ELSE 1
    IN  <<(s * n) \div g, (s * d) \div g>>
RInt(n) == <<n, 1>>
RAdd(p, q) == Rat(p[1] * q[2] + q[1] * p[2], p[2] * q[2])
RSub(p, q) == Rat(p[1] * q[2] - q[1] * p[2], p[2] * q[2])
RMul(p, q) == Rat(p[1] * q[1], p[2] * q[2])
RDiv(p, q) == Rat(p[1] * q[2], p[2] * q[1])
RLe(p, q) == p[1] * q[2] <= q[1] * p[2]
RLt(p, q) == p[1] * q[2] < q[1] * p[2]
RMin(p, q) == IF RLe(p, q) THEN p ELSE q
RMax(p, q) == IF RLe(p, q) THEN q ELSE p

\* math.sqrt on the perfect squares the routes produce
RECURSIVE SqrtFrom(_, _)
SqrtFrom(n, r) == IF r * r >= n THEN r ELSE SqrtFrom(n, r + 1)
Sqrt(n) == CHOOSE r \in {SqrtFrom(n, 0)} : r * r = n

----------------------------------------------------------------------------
(* Messages                                                                *)
\* a styx_msgs/Waypoint: pose.pose.position and (squared) twist.twist.linear.x
Waypoint(x, y, z) == [x |-> x, y |-> y, z |-> z, v2 |-> RInt(16)]

\* /base_waypoints messages (Lane.waypoints)
Route1 == << Waypoint(0, 0, 0), Waypoint(4, 0, 0), Waypoint(8, 0, 0),
             Waypoint(12, 0, 0), Waypoint(18, 0, 0) >>
Route2 == << Waypoint(0, 0, 0), Waypoint(3, 0, 0), Waypoint(3, 4, 3) >>
Routes == {<<>>, Route1, Route2}

\* /current_pose positions (x, y)
Positions == {<<-1, 0>>, <<2, 0>>, <<11, 0>>, <<19, 0>>}
\* /current_velocity and /target_v values
Velocities == {0, 3, MaxVel}
TargetVs == {MaxTargetV}
\* stop-line points of /traffic_waypoint
StopPoints == {<<3, 1>>, <<11, 0>>}

----------------------------------------------------------------------------
(* WaypointUpdater                                                         *)
NoPub == [closest_waypoint |-> None, final_waypoints |-> None, stop_a |-> None]
NoTick == [branch |-> "none", closest_idx |-> -1, next_wp |-> -1,
           stop_dist |-> -1, a |-> RInt(-1)]

\* WaypointUpdater.__init__
WuInit ==
    /\ vehicle_position = None
    /\ waypoints = None
    /\ waypoints_2d = None
    /\ waypoints_tree = None
    /\ v = 0
    /\ TARGET_V = 0
    /\ stop_waypoint = -1
    /\ stop_x = -1
    /\ stop_y = -1
    /\ pc = "tick"
    /\ pub = NoPub
    /\ tick = NoTick

\* Times are in hundredths of a second: self.dt = 0.02 is NOMINAL_DT
NOMINAL_DT == 2
\* time.time() when the dbw node starts
StartTime == 4

\* nothing published on /vehicle/throttle_cmd, steering_cmd, brake_cmd
NoCmds == [throttle |-> None, steer |-> None, brake |-> None]
\* the arguments of controller.control
NoArgs == [enabled |-> FALSE, goal_linear_v |-> 0, goal_angular_v |-> 0,
           stop_a |-> -1, current_linear_v |-> 0, dt |-> 0]
\* the locals of an iteration of DBWNode.loop: the value of the test
\* "if self.dbw_enabled", whether control was called and with what
NoCall == [tested |-> FALSE, called |-> FALSE, args |-> NoArgs]
\* the iterations so far: how many (up to 2), the time stamps of the last two,
\* the value of the test "if self.dbw_enabled" in the last two, and the
\* integrated error the controller held when the last one started
NoHist == [iter |-> 0, prev_stamp |-> -1, stamp |-> -1, enabled |-> FALSE,
           prev_enabled |-> FALSE, residual |-> 0]

\* DBWNode.__init__
DbwInit ==
    /\ dbw_enabled = FALSE
    /\ goal_linear_v = 0
    /\ goal_angular_v = 0
    /\ current_linear_v = 0
    /\ stop_a = -1
    /\ prev_time = -1
    /\ dt = NOMINAL_DT
    /\ now = StartTime
    /\ controller = [integral |-> 0]
    /\ dbw_pc = "top"
    /\ twist_pc = None
    /\ dbw_loc = NoCall
    /\ cmds = NoCmds
    /\ hist = NoHist

\* the values a tick of the waypoint updater has read from the fields so
\* far: the position, spatial index and coordinate list of
\* get_closest_waypoint_idx, the list sliced, self.stop_waypoint as tested
\* and as passed to distance, self.v of the stop decision, and the position,
\* stop line and velocity of generate_stop_trajectory; and the iterations
\* of loop() so far
NoLocals == [iter |-> 0, pos |-> <<0, 0>>, tree |-> None, wps2d |-> None, wps |-> None,
             closest_idx |-> -1, next_wp |-> -1, final |-> <<>>,
             stop_test |-> -1, stop_idx |-> -1, stop_dist |-> -1, v_decide |-> 0,
             pos_line |-> <<0, 0>>, sx |-> -1, sy |-> -1, v_stop |-> 0]
\* the callback thread of /traffic_waypoint or /base_waypoints: the
\* statement it is at, its message, and the routes received so far
NoCallback == [at |-> "idle", msg |-> <<>>, loads |-> 0]

\* no tick and no callback of the waypoint updater is in progress
RaceInit ==
    /\ wu_loc = NoLocals
    /\ cb = NoCallback

Init == WuInit /\ DbwInit /\ RaceInit

\* a test that takes only None, not the empty list, as false
Falsy_OnlyNone(o) == o = None

\* "not self.waypoints": None and the empty list are both false
Falsy(o) == o = None \/ Val(o) = <<>>

\* scipy KDTree.query(p, 1)[1]: the index of a data point nearest to p;
\* which one of several equidistant points is returned is not specified
KDTreeQuery(tree, p) ==
    LET d2(k) == (tree[k + 1][1] - p[1]) * (tree[k + 1][1] - p[1])
               + (tree[k + 1][2] - p[2]) * (tree[k + 1][2] - p[2])
        I == 0..(Len(tree) - 1)
    IN  {c \in I : \A k \in I : d2(c) <= d2(k)}

\* get_closest_waypoint_idx with a predecessor that does not wrap at index 0
get_closest_waypoint_idx_NoWrap(wps2d, pos, closest_idx) ==
    LET closest_coord == PyIndex(wps2d, closest_idx)
        prev_coord == PyIndex(wps2d, IF closest_idx = 0 THEN 0 ELSE closest_idx - 1)
        val == (closest_coord[1] - prev_coord[1]) * (pos[1] - closest_coord[1])
             + (closest_coord[2] - prev_coord[2]) * (pos[2] - closest_coord[2])
    IN  IF val > 0 THEN (closest_idx + 1) % Len(wps2d) ELSE closest_idx

\* get_closest_waypoint_idx advancing without the modulo
get_closest_waypoint_idx_NoMod(wps2d, pos, closest_idx) ==
    LET closest_coord == PyIndex(wps2d, closest_idx)
        prev_coord == PyIndex(wps2d, closest_idx - 1)
        val == (closest_coord[1] - prev_coord[1]) * (pos[1] - closest_coord[1])
             + (closest_coord[2] - prev_coord[2]) * (pos[2] - closest_coord[2])
    IN  IF val > 0 THEN closest_idx + 1 ELSE closest_idx

get_closest_waypoint_idx(wps2d, pos, closest_idx) ==
    LET closest_coord == PyIndex(wps2d, closest_idx)
        prev_coord == PyIndex(wps2d, closest_idx - 1)
        val == (closest_coord[1] - prev_coord[1]) * (pos[1] - closest_coord[1])
             + (closest_coord[2] - prev_coord[2]) * (pos[2] - closest_coord[2])
    IN  IF val > 0 THEN (closest_idx + 1) % Len(wps2d) ELSE closest_idx

\* the lambda dl of the trajectory generators (x, y only)
dl2(a, b) == Sqrt((a.x - b.x) * (a.x - b.x) + (a.y - b.y) * (a.y - b.y))
\* the lambda dl of distance (x, y, z)
dl3(a, b) == Sqrt((a.x - b.x) * (a.x - b.x) + (a.y - b.y) * (a.y - b.y)
                  + (a.z - b.z) * (a.z - b.z))

set_waypoint_velocity(wps, i, velocity2) ==
    [wps EXCEPT ![i + 1] = [@ EXCEPT !.v2 = velocity2]]

\* "for i in range(lo, hi): dist += dl(waypoints[i], waypoints[i+1])"
RECURSIVE SumLoop(_, _, _, _)
SumLoop(wps, i, hi, dist) ==
    IF i >= hi THEN dist
    ELSE SumLoop(wps, i + 1, hi, dist + dl3(PyIndex(wps, i), PyIndex(wps, i + 1)))

\* distance without the second loop of the wrapped case
distance_NoHead(wps, wp1, wp2) ==
    LET N == Len(wps)
    IN  IF wp2 >= wp1
        THEN SumLoop(wps, wp1, wp2, 0)
        ELSE SumLoop(wps, wp1, N - 1, 0)

distance(wps, wp1, wp2) ==
    LET N == Len(wps)
    IN  IF wp2 >= wp1
        THEN SumLoop(wps, wp1, wp2, 0)
        ELSE SumLoop(wps, 0, wp2, SumLoop(wps, wp1, N - 1, 0))

\* the keep-speed loop without the cap at the cruise velocity
RECURSIVE KeepLoop_NoCap(_, _, _, _)
KeepLoop_NoCap(wps, i, cur_v2, target_v) ==
    IF i >= Len(wps) THEN wps
    ELSE LET wp0 == PyIndex(wps, i - 1)
             wp1 == PyIndex(wps, i)
             nxt == RAdd(cur_v2, RInt(2 * COMFORT_ACCEL * dl2(wp0, wp1)))
         IN  KeepLoop_NoCap(set_waypoint_velocity(wps, i, nxt), i + 1, nxt, target_v)

\* the keep-speed loop ramping from the velocity stored in the waypoint
RECURSIVE KeepLoop_FromStored(_, _, _, _)
KeepLoop_FromStored(wps, i, cur_v2, target_v) ==
    IF i >= Len(wps) THEN wps
    ELSE LET wp0 == PyIndex(wps, i - 1)
             wp1 == PyIndex(wps, i)
             nxt == RMin(RInt(target_v * target_v),
                         RAdd(wp1.v2, RInt(2 * COMFORT_ACCEL * dl2(wp0, wp1))))
         IN  KeepLoop_FromStored(set_waypoint_velocity(wps, i, nxt), i + 1, nxt, target_v)

RECURSIVE KeepLoop(_, _, _, _)
KeepLoop(wps, i, cur_v2, target_v) ==
    IF i >= Len(wps) THEN wps
    ELSE LET wp0 == PyIndex(wps, i - 1)
             wp1 == PyIndex(wps, i)
             nxt == RMin(RInt(target_v * target_v),
                         RAdd(cur_v2, RInt(2 * COMFORT_ACCEL * dl2(wp0, wp1))))
         IN  KeepLoop(set_waypoint_velocity(wps, i, nxt), i + 1, nxt, target_v)

generate_keep_trajectory(wps, cur_v, target_v) ==
    KeepLoop(wps, 0, RInt(cur_v * cur_v), target_v)

\* the stop loop with the sign of the deceleration term flipped
RECURSIVE StopLoop_Plus(_, _, _, _)
StopLoop_Plus(wps, i, cur_v2, a) ==
    IF i >= Len(wps) THEN wps
    ELSE LET wp0 == PyIndex(wps, i - 1)
             wp1 == PyIndex(wps, i)
             nxt == RMax(RInt(0),
                         RAdd(cur_v2, RMul(RInt(2 * dl2(wp0, wp1)), a)))
         IN  StopLoop_Plus(set_waypoint_velocity(wps, i, nxt), i + 1, nxt, a)

RECURSIVE StopLoop(_, _, _, _)
StopLoop(wps, i, cur_v2, a) ==
    IF i >= Len(wps) THEN wps
    ELSE LET wp0 == PyIndex(wps, i - 1)
             wp1 == PyIndex(wps, i)
             nxt == RMax(RInt(0),
                         RSub(cur_v2, RMul(RInt(2 * dl2(wp0, wp1)), a)))
         IN  StopLoop(set_waypoint_velocity(wps, i, nxt), i + 1, nxt, a)

\* stop_line_dist < 3, compared on the squares
NearStopLine(pos, sx, sy) ==
    (pos[1] - sx) * (pos[1] - sx) + (pos[2] - sy) * (pos[2] - sy)
        < NEAR_LINE_DIST * NEAR_LINE_DIST

\* the division by self.v evaluated before the near-line test
StopFaults_AnyDist(pos, sx, sy, cur_v) == cur_v = 0

\* "t = (2*stop_dist) / (self.v)" raises ZeroDivisionError for self.v = 0
StopFaults(pos, sx, sy, cur_v) == ~NearStopLine(pos, sx, sy) /\ cur_v = 0

\* the deceleration without the clamp to COMFORT_DECEL
StopDecel_NoClamp(stop_dist, pos, sx, sy, cur_v) ==
    IF NearStopLine(pos, sx, sy) THEN RInt(NEAR_LINE_DECEL)
    ELSE LET t == Rat(2 * stop_dist, cur_v)
         IN  RDiv(RInt(cur_v), RMax(Rat(1, EPS_INV), t))

\* the deceleration a of generate_stop_trajectory, where it does not fault
StopDecel(stop_dist, pos, sx, sy, cur_v) ==
    IF NearStopLine(pos, sx, sy) THEN RInt(NEAR_LINE_DECEL)
    ELSE LET t == Rat(2 * stop_dist, cur_v)
         IN  RMin(RInt(COMFORT_DECEL),
                  RDiv(RInt(cur_v), RMax(Rat(1, EPS_INV), t)))

generate_stop_trajectory(wps, stop_dist, pos, sx, sy, cur_v) ==
    LET a == StopDecel(stop_dist, pos, sx, sy, cur_v)
    IN  [a |-> a, waypoints |-> StopLoop(wps, 0, RInt(cur_v * cur_v), a)]

\* "stop_dist <= max(MIN_LOOKAHEAD_DIST, lookahead_dist)"
StopSelected(stop_dist, cur_v) ==
    LET lookahead_t == Rat(cur_v, COMFORT_DECEL)
        lookahead_dist == RMul(Rat(COMFORT_DECEL, 2), RMul(lookahead_t, lookahead_t))
    IN  RLe(RInt(stop_dist), RMax(RInt(MIN_LOOKAHEAD_DIST), lookahead_dist))

\* the waypoints of the slice are the objects of the route: a velocity set
\* in the slice is set in self.waypoints
WriteBack(wps, next_wp, slice) ==
    [k \in 1..Len(wps) |->
        IF k > next_wp /\ k <= next_wp + Len(slice) THEN slice[k - next_wp] ELSE wps[k]]

\* get_closest_waypoint_idx dereferences self.vehicle_position and
\* self.waypoints_tree: an AttributeError where either is None
LocatorFaults == vehicle_position = None \/ waypoints_tree = None

\* one iteration of loop(): handle_final_waypoints().  An exception leaves
\* loop() and __init__ and ends the node.
handle_final_waypoints ==
    /\ pc = "tick"
    /\ IF Falsy(waypoints) \/ vehicle_position = None
       THEN /\ pc' = "sleep"
            /\ pub' = NoPub
            /\ tick' = [NoTick EXCEPT !.branch = "skip"]
            /\ UNCHANGED node
       ELSE IF LocatorFaults
       THEN /\ pc' = "crashed"
            /\ pub' = NoPub
            /\ tick' = [NoTick EXCEPT !.branch = "fault"]
            /\ UNCHANGED node
       ELSE \E closest_idx \in KDTreeQuery(Val(waypoints_tree), vehicle_position) :
            LET wps == Val(waypoints)
                next_wp == get_closest_waypoint_idx(Val(waypoints_2d), vehicle_position, closest_idx)
                final_waypoints == PySlice(wps, next_wp, next_wp + LOOKAHEAD_WPS)
                stop_dist == IF stop_waypoint # -1
                             THEN distance(wps, next_wp, stop_waypoint) ELSE -1
                keep == generate_keep_trajectory(final_waypoints, v, TARGET_V)
                t0 == [branch |-> "keep", closest_idx |-> closest_idx,
                       next_wp |-> next_wp, stop_dist |-> stop_dist, a |-> RInt(-1)]
            IN  IF stop_waypoint # -1 /\ StopSelected(stop_dist, v)
                THEN IF StopFaults(vehicle_position, stop_x, stop_y, v)
                     THEN /\ pc' = "crashed"
                          /\ pub' = [NoPub EXCEPT !.closest_waypoint = Some(next_wp)]
                          /\ tick' = [t0 EXCEPT !.branch = "fault"]
                          /\ UNCHANGED node
                     ELSE LET r == generate_stop_trajectory(final_waypoints, stop_dist,
                                        vehicle_position, stop_x, stop_y, v)
                          IN  /\ pc' = "sleep"
                              /\ pub' = [closest_waypoint |-> Some(next_wp),
                                         final_waypoints |-> Some(r.waypoints),
                                         stop_a |-> Some(r.a)]
                              /\ tick' = [t0 EXCEPT !.branch = "stop", !.a = r.a]
                              /\ waypoints' = Some(WriteBack(wps, next_wp, r.waypoints))
                              /\ UNCHANGED <<vehicle_position, waypoints_2d, waypoints_tree,
                                             v, TARGET_V, stop_waypoint, stop_x, stop_y>>
                ELSE /\ pc' = "sleep"
                     /\ pub' = [closest_waypoint |-> Some(next_wp),
                                final_waypoints |-> Some(keep),
                                stop_a |-> Some(RInt(-1))]
                     /\ tick' = t0
                     /\ waypoints' = Some(WriteBack(wps, next_wp, keep))
                     /\ UNCHANGED <<vehicle_position, waypoints_2d, waypoints_tree,
                                    v, TARGET_V, stop_waypoint, stop_x, stop_y>>
    /\ UNCHANGED <<dbwVars, raceVars>>

\* rate.sleep() returns and the loop starts its next iteration
sleep ==
    /\ pc = "sleep"
    /\ pc' = "tick"
    /\ pub' = NoPub
    /\ tick' = NoTick
    /\ UNCHANGED node
    /\ UNCHANGED <<dbwVars, raceVars>>

\* The callbacks run on the subscriber threads.  A callback delivered while
\* the loop sleeps has the effect of one delivered right after the sleep, so
\* deliveries are taken at the head of the loop.
pose_cb ==
    /\ pc = "tick"
    /\ \E p \in Positions : vehicle_position' = p
    /\ UNCHANGED <<waypoints, waypoints_2d, waypoints_tree, v, TARGET_V,
                   stop_waypoint, stop_x, stop_y, pc, pub, tick>>
    /\ UNCHANGED <<dbwVars, raceVars>>

\* /base_waypoints is published once; KDTree([]) raises, which leaves
\* waypoints_tree as it was
waypoints_cb ==
    /\ pc = "tick"
    /\ waypoints = None
    /\ \E r \in Routes :
        /\ waypoints' = Some(r)
        /\ waypoints_2d' = Some([k \in 1..Len(r) |-> <<r[k].x, r[k].y>>])
        /\ waypoints_tree' = IF r = <<>> THEN waypoints_tree
                             ELSE Some([k \in 1..Len(r) |-> <<r[k].x, r[k].y>>])
    /\ UNCHANGED <<vehicle_position, v, TARGET_V, stop_waypoint, stop_x, stop_y,
                   pc, pub, tick>>
    /\ UNCHANGED <<dbwVars, raceVars>>

targetv_cb ==
    /\ pc = "tick"
    /\ \E t \in TargetVs : TARGET_V' = t
    /\ UNCHANGED <<vehicle_position, waypoints, waypoints_2d, waypoints_tree, v,
                   stop_waypoint, stop_x, stop_y, pc, pub, tick>>
    /\ UNCHANGED <<dbwVars, raceVars>>

velocity_cb ==
    /\ pc = "tick"
    /\ \E x \in Velocities : v' = x
    /\ UNCHANGED <<vehicle_position, waypoints, waypoints_2d, waypoints_tree, TARGET_V,
                   stop_waypoint, stop_x, stop_y, pc, pub, tick>>
    /\ UNCHANGED <<dbwVars, raceVars>>

\* the stop waypoint of a message is -1 or an index of the route it was
\* computed on
traffic_cb ==
    /\ pc = "tick"
    /\ \/ /\ stop_waypoint' = -1
          /\ stop_x' = -1
          /\ stop_y' = -1
       \/ /\ ~Falsy(waypoints)
          /\ \E i \in 0..(Len(Val(waypoints)) - 1), s \in StopPoints :
                /\ stop_waypoint' = i
                /\ stop_x' = s[1]
                /\ stop_y' = s[2]
    /\ UNCHANGED <<vehicle_position, waypoints, waypoints_2d, waypoints_tree, v,
                   TARGET_V, pc, pub, tick>>
    /\ UNCHANGED <<dbwVars, raceVars>>

\* a /base_waypoints message longer than the horizon: LOOKAHEAD_WPS + 2
\* waypoints one metre apart
LongRoute == [k \in 1..(LOOKAHEAD_WPS + 2) |-> Waypoint(k - 1, 0, 0)]
\* the stop waypoint of the /traffic_waypoint messages on the long route
LongStop == 3

\* waypoints_cb delivering the long route
waypoints_cb_long ==
    /\ pc = "tick"
    /\ waypoints = None
    /\ waypoints' = Some(LongRoute)
    /\ waypoints_2d' = Some([k \in 1..Len(LongRoute) |-> <<LongRoute[k].x, LongRoute[k].y>>])
    /\ waypoints_tree' = Some([k \in 1..Len(LongRoute) |-> <<LongRoute[k].x, LongRoute[k].y>>])
    /\ UNCHANGED <<vehicle_position, v, TARGET_V, stop_waypoint, stop_x, stop_y,
                   pc, pub, tick>>
    /\ UNCHANGED <<dbwVars, raceVars>>

\* traffic_cb on the long route
traffic_cb_long ==
    /\ pc = "tick"
    /\ \/ /\ stop_waypoint' = -1
          /\ stop_x' = -1
          /\ stop_y' = -1
       \/ /\ ~Falsy(waypoints)
          /\ \E s \in StopPoints :
                /\ stop_waypoint' = LongStop
                /\ stop_x' = s[1]
                /\ stop_y' = s[2]
    /\ UNCHANGED <<vehicle_position, waypoints, waypoints_2d, waypoints_tree, v,
                   TARGET_V, pc, pub, tick>>
    /\ UNCHANGED <<dbwVars, raceVars>>

Next ==
    \/ handle_final_waypoints
    \/ sleep
    \/ pose_cb
    \/ waypoints_cb
    \/ targetv_cb
    \/ velocity_cb
    \/ traffic_cb

Spec == Init /\ [][Next]_vars

\* the node on a route longer than the horizon
NextHorizon ==
    \/ handle_final_waypoints
    \/ sleep
    \/ pose_cb
    \/ waypoints_cb_long
    \/ targetv_cb
    \/ velocity_cb
    \/ traffic_cb_long

SpecHorizon == Init /\ [][NextHorizon]_vars

----------------------------------------------------------------------------
(* DBWNode                                                                 *)

\* /twist_cmd messages (linear.x, angular.z), /current_velocity values,
\* /stop_a values, and the time one iteration with its rate.sleep() takes
TwistMsgs == {<<1, 1>>, <<2, 2>>}
CurrentVs == {0, 1}
StopAs == {-1, 1}
SleepSteps == {2, 3}
\* the wall clock stops here
MaxTime == 13

\* the head of an iteration with no fallback for the first one
LoopTime_NoFallback(prev, d, t) == [prev_time |-> t, dt |-> t - prev]

\* the head of an iteration of DBWNode.loop: self.prev_time and self.dt
\* after it, with t = time.time()
LoopTime(prev, d, t) ==
    IF prev # -1
    THEN [prev_time |-> t, dt |-> t - prev]
    ELSE [prev_time |-> t, dt |-> d]

\* Controller.control.  The integral of the velocity error is reset by a
\* call with enabled false and grows by error * elapsed time otherwise; the
\* throttle is the integral term, the brake the feed-forward deceleration
\* where there is one, the steering follows the goal yaw rate.
control(st, a) ==
    IF ~a.enabled
    THEN [state |-> [integral |-> 0], throttle |-> 0, brake |-> 0, steer |-> 0]
    ELSE LET i == st.integral + (a.goal_linear_v - a.current_linear_v) * a.dt
         IN  [state |-> [integral |-> i],
              throttle |-> i,
              brake |-> IF a.stop_a > 0 THEN a.stop_a ELSE 0,
              steer |-> a.goal_angular_v]

\* publish with the brake command left disabled
publish_BrakeOff(throttle, brake, steer) ==
    [throttle |-> Some([enable |-> TRUE, cmd |-> throttle]),
     steer |-> Some([enable |-> TRUE, cmd |-> steer]),
     brake |-> Some([enable |-> FALSE, cmd |-> brake])]

\* DBWNode.publish: one message on each of the three topics
publish(throttle, brake, steer) ==
    [throttle |-> Some([enable |-> TRUE, cmd |-> throttle]),
     steer |-> Some([enable |-> TRUE, cmd |-> steer]),
     brake |-> Some([enable |-> TRUE, cmd |-> brake])]

\* what the iteration adds to the record of the iterations
Record(h, t, enabled, integral) ==
    [iter |-> IF h.iter < 2 THEN h.iter + 1 ELSE 2,
     prev_stamp |-> h.stamp,
     stamp |-> t,
     enabled |-> enabled,
     prev_enabled |-> h.enabled,
     residual |-> integral]

\* one iteration of DBWNode.loop up to rate.sleep()
loop ==
    /\ dbw_pc = "top"
    /\ twist_pc = None
    /\ LET lt == LoopTime(prev_time, dt, now)
           args == [enabled |-> dbw_enabled,
                    goal_linear_v |-> goal_linear_v,
                    goal_angular_v |-> goal_angular_v,
                    stop_a |-> stop_a,
                    current_linear_v |-> current_linear_v,
                    dt |-> lt.dt]
       IN  /\ prev_time' = lt.prev_time
           /\ dt' = lt.dt
           /\ IF dbw_enabled
              THEN LET r == control(controller, args)
                   IN  /\ controller' = r.state
                       /\ cmds' = publish(r.throttle, r.brake, r.steer)
                       /\ dbw_loc' = [tested |-> TRUE, called |-> TRUE, args |-> args]
              ELSE /\ controller' = controller
                   /\ cmds' = NoCmds
                   /\ dbw_loc' = NoCall
    /\ hist' = Record(hist, now, dbw_enabled, controller.integral)
    /\ dbw_pc' = "sleep"
    /\ UNCHANGED <<dbw_enabled, goal_linear_v, goal_angular_v, current_linear_v,
                   stop_a, now, twist_pc>>
    /\ UNCHANGED <<wuVars, raceVars>>

\* rate.sleep(): the clock moves on and the next iteration starts
rate_sleep ==
    /\ dbw_pc = "sleep"
    /\ \E d \in SleepSteps :
        /\ now + d <= MaxTime
        /\ now' = now + d
    /\ dbw_pc' = "top"
    /\ cmds' = NoCmds
    /\ dbw_loc' = NoCall
    /\ UNCHANGED <<dbw_enabled, goal_linear_v, goal_angular_v, current_linear_v,
                   stop_a, prev_time, dt, controller, twist_pc, hist>>
    /\ UNCHANGED <<wuVars, raceVars>>

\* The callbacks, delivered at the head of the loop (see pose_cb above)
dbw_velocity_cb ==
    /\ dbw_pc = "top"
    /\ \E x \in CurrentVs : current_linear_v' = x
    /\ UNCHANGED <<dbw_enabled, goal_linear_v, goal_angular_v, stop_a, prev_time, dt,
                   now, controller, dbw_pc, twist_pc, dbw_loc, cmds, hist>>
    /\ UNCHANGED <<wuVars, raceVars>>

twist_cb ==
    /\ dbw_pc = "top"
    /\ twist_pc = None
    /\ \E m \in TwistMsgs :
        /\ goal_linear_v' = m[1]
        /\ goal_angular_v' = m[2]
    /\ UNCHANGED <<dbw_enabled, current_linear_v, stop_a, prev_time, dt,
                   now, controller, dbw_pc, twist_pc, dbw_loc, cmds, hist>>
    /\ UNCHANGED <<wuVars, raceVars>>

dbw_cb ==
    /\ dbw_pc = "top"
    /\ \E b \in BOOLEAN : dbw_enabled' = b
    /\ UNCHANGED <<goal_linear_v, goal_angular_v, current_linear_v, stop_a, prev_time, dt,
                   now, controller, dbw_pc, twist_pc, dbw_loc, cmds, hist>>
    /\ UNCHANGED <<wuVars, raceVars>>

stopa_cb ==
    /\ dbw_pc = "top"
    /\ \E a \in StopAs : stop_a' = a
    /\ UNCHANGED <<dbw_enabled, goal_linear_v, goal_angular_v, current_linear_v,
                   prev_time, dt, now, controller, dbw_pc, twist_pc, dbw_loc, cmds, hist>>
    /\ UNCHANGED <<wuVars, raceVars>>

NextDBW ==
    \/ loop
    \/ rate_sleep
    \/ dbw_velocity_cb
    \/ twist_cb
    \/ dbw_cb
    \/ stopa_cb

SpecDBW == Init /\ [][NextDBW]_vars

----------------------------------------------------------------------------
(* DBWNode with the callbacks on their own threads: rospy runs every       *)
(* subscriber callback on a thread of its own, so a callback can run       *)
(* between any two statements of the loop and of another callback.         *)

\* loop: the head of the iteration and the test "if self.dbw_enabled"
loop_test ==
    /\ dbw_pc = "top"
    /\ LET lt == LoopTime(prev_time, dt, now)
       IN  /\ prev_time' = lt.prev_time
           /\ dt' = lt.dt
    /\ hist' = Record(hist, now, dbw_enabled, controller.integral)
    /\ IF dbw_enabled
       THEN /\ dbw_pc' = "enabled"
            /\ dbw_loc' = [tested |-> TRUE, called |-> FALSE, args |-> NoArgs]
       ELSE /\ dbw_pc' = "sleep"
            /\ dbw_loc' = NoCall
    /\ UNCHANGED <<dbw_enabled, goal_linear_v, goal_angular_v, current_linear_v,
                   stop_a, now, controller, twist_pc, cmds>>
    /\ UNCHANGED <<wuVars, raceVars>>

\* loop: the argument self.dbw_enabled of control is evaluated
loop_read_enabled ==
    /\ dbw_pc = "enabled"
    /\ dbw_loc' = [dbw_loc EXCEPT !.args.enabled = dbw_enabled]
    /\ dbw_pc' = "linear"
    /\ UNCHANGED <<dbw_enabled, goal_linear_v, goal_angular_v, current_linear_v,
                   stop_a, prev_time, dt, now, controller, twist_pc, cmds, hist>>
    /\ UNCHANGED <<wuVars, raceVars>>

\* loop: the argument self.goal_linear_v is evaluated
loop_read_linear ==
    /\ dbw_pc = "linear"
    /\ dbw_loc' = [dbw_loc EXCEPT !.args.goal_linear_v = goal_linear_v]
    /\ dbw_pc' = "angular"
    /\ UNCHANGED <<dbw_enabled, goal_linear_v, goal_angular_v, current_linear_v,
                   stop_a, prev_time, dt, now, controller, twist_pc, cmds, hist>>
    /\ UNCHANGED <<wuVars, raceVars>>

\* loop: the argument self.goal_angular_v is evaluated
loop_read_angular ==
    /\ dbw_pc = "angular"
    /\ dbw_loc' = [dbw_loc EXCEPT !.args.goal_angular_v = goal_angular_v]
    /\ dbw_pc' = "call"
    /\ UNCHANGED <<dbw_enabled, goal_linear_v, goal_angular_v, current_linear_v,
                   stop_a, prev_time, dt, now, controller, twist_pc, cmds, hist>>
    /\ UNCHANGED <<wuVars, raceVars>>

\* loop: the remaining arguments, the call of control, and publish
loop_call ==
    /\ dbw_pc = "call"
    /\ LET args == [dbw_loc.args EXCEPT !.stop_a = stop_a,
                                        !.current_linear_v = current_linear_v,
                                        !.dt = dt]
           r == control(controller, args)
       IN  /\ controller' = r.state
           /\ cmds' = publish(r.throttle, r.brake, r.steer)
           /\ dbw_loc' = [dbw_loc EXCEPT !.called = TRUE, !.args = args]
    /\ dbw_pc' = "sleep"
    /\ UNCHANGED <<dbw_enabled, goal_linear_v, goal_angular_v, current_linear_v,
                   stop_a, prev_time, dt, now, twist_pc, hist>>
    /\ UNCHANGED <<wuVars, raceVars>>

\* twist_cb: self.goal_linear_v = msg.twist.linear.x
twist_cb_linear ==
    /\ twist_pc = None
    /\ \E m \in TwistMsgs :
        /\ goal_linear_v' = m[1]
        /\ twist_pc' = Some(m)
    /\ UNCHANGED <<dbw_enabled, goal_angular_v, current_linear_v, stop_a, prev_time, dt,
                   now, controller, dbw_pc, dbw_loc, cmds, hist>>
    /\ UNCHANGED <<wuVars, raceVars>>

\* twist_cb: self.goal_angular_v = msg.twist.angular.z
twist_cb_angular ==
    /\ twist_pc # None
    /\ goal_angular_v' = Val(twist_pc)[2]
    /\ twist_pc' = None
    /\ UNCHANGED <<dbw_enabled, goal_linear_v, current_linear_v, stop_a, prev_time, dt,
                   now, controller, dbw_pc, dbw_loc, cmds, hist>>
    /\ UNCHANGED <<wuVars, raceVars>>

\* dbw_cb at any point of the loop
dbw_cb_async ==
    /\ \E b \in BOOLEAN : dbw_enabled' = b
    /\ UNCHANGED <<goal_linear_v, goal_angular_v, current_linear_v, stop_a, prev_time, dt,
                   now, controller, dbw_pc, twist_pc, dbw_loc, cmds, hist>>
    /\ UNCHANGED <<wuVars, raceVars>>

NextDBWRace ==
    \/ loop_test
    \/ loop_read_enabled
    \/ loop_read_linear
    \/ loop_read_angular
    \/ loop_call
    \/ rate_sleep
    \/ twist_cb_linear
    \/ twist_cb_angular
    \/ dbw_cb_async

SpecDBWRace == Init /\ [][NextDBWRace]_vars

----------------------------------------------------------------------------
(* WaypointUpdater with the callbacks on their own threads: a callback can *)
(* run between any two statements of handle_final_waypoints and of         *)
(* another callback.  The tick is taken statement by statement.            *)

\* /traffic_waypoint messages (stop_waypoint, stop_x, stop_y); no two share
\* a component, so the message a value came from is known from the value
TrafficMsgs == {<<-1, -1, -1>>, <<2, 11, 0>>}
\* the /current_pose and /current_velocity messages that arrive during a tick
TickPositions == {<<2, 0>>, <<11, 0>>}
TickVelocities == {3, MaxVel}
\* the routes of a first and of a resent /base_waypoints message
ResentRoutes == {Route1, Route2}
\* /base_waypoints messages received at most
MaxLoads == 2
\* iterations of loop() before rospy.is_shutdown()
MaxTicks == 2

\* the [x, y] list waypoints_cb builds from a route
Coords2d(r) == [k \in 1..Len(r) |-> <<r[k].x, r[k].y>>]

\* "self.waypoints_2d[closest_idx]" raises IndexError past the end
IndexFaults(wps2d, closest_idx) == closest_idx >= Len(wps2d)

\* the velocities set in the slice are set in the waypoint objects of the
\* list that was sliced: in self.waypoints while it still is that list
WriteBackTo(cur, wps, next_wp, slice) ==
    IF cur = wps THEN Some(WriteBack(Val(wps), next_wp, slice)) ELSE cur

\* handle_final_waypoints: "if not self.waypoints or not self.vehicle_position"
tick_guard ==
    /\ pc = "tick"
    /\ wu_loc.iter < MaxTicks
    /\ IF Falsy(waypoints) \/ vehicle_position = None
       THEN /\ pc' = "sleep"
            /\ tick' = [NoTick EXCEPT !.branch = "skip"]
       ELSE /\ pc' = "query"
            /\ tick' = NoTick
    /\ pub' = NoPub
    /\ wu_loc' = [NoLocals EXCEPT !.iter = wu_loc.iter + 1]
    /\ UNCHANGED <<node, cb, dbwVars>>

\* get_closest_waypoint_idx: the position and the query of the spatial index
tick_query ==
    /\ pc = "query"
    /\ IF LocatorFaults
       THEN /\ pc' = "crashed"
            /\ tick' = [NoTick EXCEPT !.branch = "fault"]
            /\ UNCHANGED wu_loc
       ELSE \E closest_idx \in KDTreeQuery(Val(waypoints_tree), vehicle_position) :
            /\ pc' = "next"
            /\ wu_loc' = [wu_loc EXCEPT !.pos = vehicle_position,
                                        !.tree = waypoints_tree,
                                        !.closest_idx = closest_idx]
            /\ UNCHANGED tick
    /\ UNCHANGED <<node, pub, cb, dbwVars>>

\* get_closest_waypoint_idx: the coordinates of the closest waypoint and of
\* the one before it, the advance, and the publication of the index
tick_next ==
    /\ pc = "next"
    /\ IF IndexFaults(Val(waypoints_2d), wu_loc.closest_idx)
       THEN /\ pc' = "crashed"
            /\ tick' = [NoTick EXCEPT !.branch = "fault",
                                      !.closest_idx = wu_loc.closest_idx]
            /\ wu_loc' = [wu_loc EXCEPT !.wps2d = waypoints_2d]
            /\ UNCHANGED pub
       ELSE LET next_wp == get_closest_waypoint_idx(Val(waypoints_2d), wu_loc.pos,
                                                    wu_loc.closest_idx)
            IN  /\ pc' = "slice"
                /\ wu_loc' = [wu_loc EXCEPT !.wps2d = waypoints_2d, !.next_wp = next_wp]
                /\ pub' = [pub EXCEPT !.closest_waypoint = Some(next_wp)]
                /\ UNCHANGED tick
    /\ UNCHANGED <<node, cb, dbwVars>>

\* handle_final_waypoints: the slice and "if self.stop_waypoint != -1"
tick_slice ==
    /\ pc = "slice"
    /\ wu_loc' = [wu_loc EXCEPT
                    !.wps = waypoints,
                    !.final = PySlice(Val(waypoints), wu_loc.next_wp,
                                      wu_loc.next_wp + LOOKAHEAD_WPS),
                    !.stop_test = stop_waypoint]
    /\ pc' = IF stop_waypoint # -1 THEN "stop_dist" ELSE "keep"
    /\ UNCHANGED <<node, pub, tick, cb, dbwVars>>

\* handle_final_waypoints: "stop_dist = self.distance(self.waypoints,
\* next_wp, self.stop_waypoint)"
tick_stop_dist ==
    /\ pc = "stop_dist"
    /\ wu_loc' = [wu_loc EXCEPT
                    !.stop_idx = stop_waypoint,
                    !.stop_dist = distance(Val(waypoints), wu_loc.next_wp, stop_waypoint)]
    /\ pc' = "decide"
    /\ UNCHANGED <<node, pub, tick, cb, dbwVars>>

\* handle_final_waypoints: the lookahead from self.v and the stop decision
tick_decide ==
    /\ pc = "decide"
    /\ wu_loc' = [wu_loc EXCEPT !.v_decide = v]
    /\ pc' = IF StopSelected(wu_loc.stop_dist, v) THEN "stop" ELSE "keep"
    /\ UNCHANGED <<node, pub, tick, cb, dbwVars>>

\* generate_stop_trajectory and the two publications
tick_stop ==
    /\ pc = "stop"
    /\ wu_loc' = [wu_loc EXCEPT !.pos_line = vehicle_position, !.sx = stop_x,
                                !.sy = stop_y, !.v_stop = v]
    /\ LET t0 == [branch |-> "stop", closest_idx |-> wu_loc.closest_idx,
                  next_wp |-> wu_loc.next_wp, stop_dist |-> wu_loc.stop_dist,
                  a |-> RInt(-1)]
       IN  IF StopFaults(vehicle_position, stop_x, stop_y, v)
           THEN /\ pc' = "crashed"
                /\ tick' = [t0 EXCEPT !.branch = "fault"]
                /\ UNCHANGED <<node, pub>>
           ELSE LET r == generate_stop_trajectory(wu_loc.final, wu_loc.stop_dist,
                                vehicle_position, stop_x, stop_y, v)
                IN  /\ pc' = "sleep"
                    /\ pub' = [pub EXCEPT !.final_waypoints = Some(r.waypoints),
                                          !.stop_a = Some(r.a)]
                    /\ tick' = [t0 EXCEPT !.a = r.a]
                    /\ waypoints' = WriteBackTo(waypoints, wu_loc.wps, wu_loc.next_wp,
                                                r.waypoints)
                    /\ UNCHANGED <<vehicle_position, waypoints_2d, waypoints_tree,
                                   v, TARGET_V, stop_waypoint, stop_x, stop_y>>
    /\ UNCHANGED <<cb, dbwVars>>

\* generate_keep_trajectory and the two publications
tick_keep ==
    /\ pc = "keep"
    /\ LET keep == generate_keep_trajectory(wu_loc.final, v, TARGET_V)
       IN  /\ pub' = [pub EXCEPT !.final_waypoints = Some(keep),
                                 !.stop_a = Some(RInt(-1))]
           /\ waypoints' = WriteBackTo(waypoints, wu_loc.wps, wu_loc.next_wp, keep)
    /\ tick' = [branch |-> "keep", closest_idx |-> wu_loc.closest_idx,
                next_wp |-> wu_loc.next_wp, stop_dist |-> wu_loc.stop_dist,
                a |-> RInt(-1)]
    /\ pc' = "sleep"
    /\ UNCHANGED <<vehicle_position, waypoints_2d, waypoints_tree,
                   v, TARGET_V, stop_waypoint, stop_x, stop_y>>
    /\ UNCHANGED <<wu_loc, cb, dbwVars>>

\* pose_cb at any point of the tick
pose_cb_async ==
    /\ pc # "crashed"
    /\ \E p \in TickPositions : vehicle_position' = p
    /\ UNCHANGED <<waypoints, waypoints_2d, waypoints_tree, v, TARGET_V,
                   stop_waypoint, stop_x, stop_y, pc, pub, tick>>
    /\ UNCHANGED <<dbwVars, raceVars>>

\* velocity_cb at any point of the tick
velocity_cb_async ==
    /\ pc # "crashed"
    /\ \E x \in TickVelocities : v' = x
    /\ UNCHANGED <<vehicle_position, waypoints, waypoints_2d, waypoints_tree, TARGET_V,
                   stop_waypoint, stop_x, stop_y, pc, pub, tick>>
    /\ UNCHANGED <<dbwVars, raceVars>>

\* traffic_cb: self.stop_waypoint = int(msg.data[0])
traffic_cb_index ==
    /\ pc # "crashed"
    /\ cb.at = "idle"
    /\ ~Falsy(waypoints)
    /\ \E m \in TrafficMsgs :
        /\ stop_waypoint' = m[1]
        /\ cb' = [cb EXCEPT !.at = "stop_x", !.msg = m]
    /\ UNCHANGED <<vehicle_position, waypoints, waypoints_2d, waypoints_tree, v,
                   TARGET_V, stop_x, stop_y, pc, pub, tick>>
    /\ UNCHANGED <<wu_loc, dbwVars>>

\* traffic_cb: self.stop_x = msg.data[1]
traffic_cb_x ==
    /\ pc # "crashed"
    /\ cb.at = "stop_x"
    /\ stop_x' = cb.msg[2]
    /\ cb' = [cb EXCEPT !.at = "stop_y"]
    /\ UNCHANGED <<vehicle_position, waypoints, waypoints_2d, waypoints_tree, v,
                   TARGET_V, stop_waypoint, stop_y, pc, pub, tick>>
    /\ UNCHANGED <<wu_loc, dbwVars>>

\* traffic_cb: self.stop_y = msg.data[2]
traffic_cb_y ==
    /\ pc # "crashed"
    /\ cb.at = "stop_y"
    /\ stop_y' = cb.msg[3]
    /\ cb' = [cb EXCEPT !.at = "idle", !.msg = <<>>]
    /\ UNCHANGED <<vehicle_position, waypoints, waypoints_2d, waypoints_tree, v,
                   TARGET_V, stop_waypoint, stop_x, pc, pub, tick>>
    /\ UNCHANGED <<wu_loc, dbwVars>>

\* The tick against pose_cb, velocity_cb and traffic_cb; the route is loaded
\* at the head of the loop.
NextTickRace ==
    \/ tick_guard
    \/ tick_query
    \/ tick_next
    \/ tick_slice
    \/ tick_stop_dist
    \/ tick_decide
    \/ tick_stop
    \/ tick_keep
    \/ sleep
    \/ waypoints_cb
    \/ pose_cb_async
    \/ velocity_cb_async
    \/ traffic_cb_index
    \/ traffic_cb_x
    \/ traffic_cb_y

SpecTickRace == Init /\ [][NextTickRace]_vars

\* waypoints_cb: self.waypoints = waypoints.waypoints, for a first route or
\* for a resent one of another length
waypoints_cb_list ==
    /\ pc # "crashed"
    /\ cb.at = "idle"
    /\ cb.loads < MaxLoads
    /\ \E r \in ResentRoutes :
        /\ IF waypoints = None THEN TRUE ELSE Len(Val(waypoints)) # Len(r)
        /\ waypoints' = Some(r)
        /\ cb' = [at |-> "waypoints_2d", msg |-> r, loads |-> cb.loads + 1]
    /\ UNCHANGED <<vehicle_position, waypoints_2d, waypoints_tree, v, TARGET_V,
                   stop_waypoint, stop_x, stop_y, pc, pub, tick>>
    /\ UNCHANGED <<wu_loc, dbwVars>>

\* waypoints_cb: self.waypoints_2d = [[x, y] for waypoint in ...]
waypoints_cb_2d ==
    /\ pc # "crashed"
    /\ cb.at = "waypoints_2d"
    /\ waypoints_2d' = Some(Coords2d(cb.msg))
    /\ cb' = [cb EXCEPT !.at = "waypoints_tree"]
    /\ UNCHANGED <<vehicle_position, waypoints, waypoints_tree, v, TARGET_V,
                   stop_waypoint, stop_x, stop_y, pc, pub, tick>>
    /\ UNCHANGED <<wu_loc, dbwVars>>

\* waypoints_cb: self.waypoints_tree = KDTree(self.waypoints_2d)
waypoints_cb_tree ==
    /\ pc # "crashed"
    /\ cb.at = "waypoints_tree"
    /\ waypoints_tree' = Some(Coords2d(cb.msg))
    /\ cb' = [cb EXCEPT !.at = "idle", !.msg = <<>>]
    /\ UNCHANGED <<vehicle_position, waypoints, waypoints_2d, v, TARGET_V,
                   stop_waypoint, stop_x, stop_y, pc, pub, tick>>
    /\ UNCHANGED <<wu_loc, dbwVars>>

\* The tick against waypoints_cb; the position and the cruise velocity
\* arrive at the head of the loop and no stop hint arrives.
NextLoadRace ==
    \/ tick_guard
    \/ tick_query
    \/ tick_next
    \/ tick_slice
    \/ tick_keep
    \/ sleep
    \/ pose_cb
    \/ targetv_cb
    \/ waypoints_cb_list
    \/ waypoints_cb_2d
    \/ waypoints_cb_tree

SpecLoadRace == Init /\ [][NextLoadRace]_vars

----------------------------------------------------------------------------
(* Properties                                                              *)

\* the trajectory published by the current iteration
Traj == Val(pub.final_waypoints)
StopTick == tick.branch = "stop"
KeepTick == tick.branch = "keep"
Ran == tick.branch \in {"keep", "stop", "fault"} /\ tick.next_wp # -1

\* C1: whenever a planning tick selects a stop trajectory,
\* generate_stop_trajectory completes and returns a deceleration, for every
\* current velocity >= 0 (velocity 0 with the vehicle 3 m or more from the
\* stop line included): the tick raises no division-by-zero fault.
C1_StopCompletes ==
    (Ran /\ stop_waypoint # -1 /\ StopSelected(tick.stop_dist, v))
        => (pc # "crashed" /\ pub.stop_a # None /\ pub.final_waypoints # None)

\* route position k is at or before the stop index, seen from the start
\* index: up to the stop index, or anywhere up to the route end when the
\* stop index lies behind the start index
AtOrBeforeStop(k, start, stop) == IF stop >= start THEN k <= stop ELSE TRUE

\* C2: every published stop trajectory has target velocity exactly 0 at a
\* horizon waypoint whose route position is at or before the stop index.
C2_StopReachesZero ==
    StopTick =>
        \E i \in 1..Len(Traj) :
            /\ Traj[i].v2 = RInt(0)
            /\ AtOrBeforeStop(tick.next_wp + i - 1, tick.next_wp, stop_waypoint)

C5_KeepNonDecreasingCapped ==
    KeepTick =>
        /\ \A i \in 1..Len(Traj) : RLe(Traj[i].v2, RInt(TARGET_V * TARGET_V))
        /\ \A i \in 1..(Len(Traj) - 1) : RLe(Traj[i].v2, Traj[i + 1].v2)

\* C5 witness: a keep-speed trajectory with the current velocity above the
\* cruise velocity, and one that rises strictly below the cruise velocity
C5_Witness ==
    /\ KeepTick
    /\ Len(Traj) >= 2
    /\ v > TARGET_V
    /\ TARGET_V > 0

C5_WitnessRising ==
    /\ KeepTick
    /\ Len(Traj) >= 2
    /\ RLt(Traj[1].v2, Traj[2].v2)
    /\ RLt(Traj[1].v2, RInt(TARGET_V * TARGET_V))

\* the Euclidean length of the segment between the slice waypoints k, k+1
\* (1-based positions of the published slice)
SegLen(k) ==
    Sqrt((Traj[k].x - Traj[k + 1].x) * (Traj[k].x - Traj[k + 1].x)
       + (Traj[k].y - Traj[k + 1].y) * (Traj[k].y - Traj[k + 1].y))
KeepStep(prev2, d) ==
    LET q == prev2[1] + 2 * COMFORT_ACCEL * d * prev2[2]
    IN  IF q <= TARGET_V * TARGET_V * prev2[2] THEN Rat(q, prev2[2])
        ELSE RInt(TARGET_V * TARGET_V)

\* C6: in a keep-speed trajectory every assigned velocity is
\* min(cruise, sqrt(v_cur^2 + 2*COMFORT_ACCEL*d)) with v_cur the current
\* velocity at the first position and the velocity before it elsewhere, and
\* d the length of a segment between two waypoints consecutive in the slice:
\* the segment that ends at the position, and at the first position some
\* segment of the slice.
C6_KeepUsesConsecutiveSegments ==
    (KeepTick /\ Len(Traj) >= 2) =>
        /\ \E k \in 1..(Len(Traj) - 1) :
                Traj[1].v2 = KeepStep(RInt(v * v), SegLen(k))
        /\ \A i \in 2..Len(Traj) :
                Traj[i].v2 = KeepStep(Traj[i - 1].v2, SegLen(i - 1))

\* stop_dist <= max(MIN_LOOKAHEAD_DIST, v^2 / (2*COMFORT_DECEL))
WithinStopRange(d) ==
    \/ d <= MIN_LOOKAHEAD_DIST
    \/ 2 * COMFORT_DECEL * d <= v * v

\* C7: on a non-skipped tick a stop trajectory is produced iff a stop hint is
\* present and the route distance to the stop index is within
\* max(MIN_LOOKAHEAD_DIST, v^2/(2*COMFORT_DECEL)); otherwise a keep-speed
\* trajectory is produced and /stop_a carries -1.
C7_DecisionRule ==
    Ran =>
        LET cond == stop_waypoint # -1 /\ WithinStopRange(tick.stop_dist)
        IN  /\ cond <=> (StopTick /\ pub.final_waypoints # None)
            /\ ~cond => (KeepTick /\ pub.final_waypoints # None
                         /\ pub.stop_a = Some(RInt(-1)))

\* arc length of the route from its first waypoint to waypoint k
RECURSIVE ArcLen(_, _)
ArcLen(wps, k) ==
    IF k = 0 THEN 0
    ELSE ArcLen(wps, k - 1)
         + Sqrt((wps[k].x - wps[k + 1].x) * (wps[k].x - wps[k + 1].x)
              + (wps[k].y - wps[k + 1].y) * (wps[k].y - wps[k + 1].y)
              + (wps[k].z - wps[k + 1].z) * (wps[k].z - wps[k + 1].z))

\* C8: distance(route, i, j) is, for j < i, the length from waypoint i to the
\* last waypoint plus the length from the first waypoint to waypoint j, and
\* for j >= i the length from i to j; the stop distance of a tick is that
\* value for the nearest index and the stop index.
C8_DistanceWraps ==
    ~Falsy(waypoints) =>
        LET wps == Val(waypoints)
            N == Len(wps)
            ref(i, j) == IF j < i
                         THEN (ArcLen(wps, N - 1) - ArcLen(wps, i)) + ArcLen(wps, j)
                         ELSE ArcLen(wps, j) - ArcLen(wps, i)
        IN  /\ \A i, j \in 0..(N - 1) : distance(wps, i, j) = ref(i, j)
            /\ (Ran /\ stop_waypoint # -1)
                  => tick.stop_dist = ref(tick.next_wp, stop_waypoint)

\* C8 witness: a tick whose stop index lies behind its start index, with
\* route on both sides of the wrap
C8_Witness ==
    /\ Ran
    /\ stop_waypoint # -1
    /\ 0 < stop_waypoint
    /\ stop_waypoint < tick.next_wp
    /\ tick.next_wp < Len(Val(waypoints)) - 1
    /\ tick.stop_dist > 0

\* squared distance of route point k (0-based) to the vehicle position
Dist2(k) ==
    LET w == Val(waypoints)[k + 1]
    IN  (w.x - vehicle_position[1]) * (w.x - vehicle_position[1])
      + (w.y - vehicle_position[2]) * (w.y - vehicle_position[2])

\* the nearest-ahead index for nearest waypoint c
NearestAhead(c) ==
    LET n == Len(Val(waypoints))
        cw == Val(waypoints)[c + 1]
        pw == Val(waypoints)[((c + n - 1) % n) + 1]
        dot == (cw.x - pw.x) * (vehicle_position[1] - cw.x)
             + (cw.y - pw.y) * (vehicle_position[2] - cw.y)
    IN  IF dot > 0 THEN (c + 1) % n ELSE c

\* C9: for a route of size >= 3 the index get_closest_waypoint_idx returns
\* and publishes is the brute-force nearest-ahead index: with c a nearest
\* waypoint, (c + 1) mod n when dot(c - prev(c), position - c) > 0 for the
\* cyclic predecessor prev(c), and c otherwise.
C9_LocatorMatchesBruteForce ==
    (Ran /\ Len(Val(waypoints)) >= 3) =>
        /\ \E c \in 0..(Len(Val(waypoints)) - 1) :
              /\ \A k \in 0..(Len(Val(waypoints)) - 1) : Dist2(c) <= Dist2(k)
              /\ c = tick.closest_idx
              /\ tick.next_wp = NearestAhead(c)
        /\ pub.closest_waypoint = Some(tick.next_wp)

\* C9 witness: the nearest waypoint is the first of the route, its
\* predecessor is the last, and the vehicle has passed it
C9_Witness ==
    /\ Ran
    /\ tick.closest_idx = 0
    /\ tick.next_wp = 1

C9_WitnessLast ==
    /\ Ran
    /\ tick.closest_idx = Len(Val(waypoints)) - 1
    /\ tick.next_wp = 0

\* C10: a planning tick that runs while the route is unset or empty or no
\* position has been received publishes nothing, raises no fault, leaves the
\* node state unchanged and the loop goes on to its sleep and next tick.
C10_SkippedTick ==
    [][(pc = "tick" /\ pc' # "tick"
         /\ (waypoints = None \/ Val(waypoints) = <<>> \/ vehicle_position = None))
        => (pc' = "sleep" /\ pub' = NoPub /\ node' = node)]_vars

\* C10 witness: a tick skipped with an empty route and a known position
C10_Witness ==
    /\ tick.branch = "skip"
    /\ pc = "sleep"
    /\ waypoints = Some(<<>>)
    /\ vehicle_position # None

C10_WitnessNoPosition ==
    /\ tick.branch = "skip"
    /\ ~Falsy(waypoints)
    /\ vehicle_position = None

\* what handle_final_waypoints computes from the node state as it is now,
\* with the nearest waypoint the KD-tree returned in this iteration
Rerun ==
    LET wps == Val(waypoints)
        next_wp == get_closest_waypoint_idx(Val(waypoints_2d), vehicle_position,
                                            tick.closest_idx)
        slice == PySlice(wps, next_wp, next_wp + LOOKAHEAD_WPS)
        stop_dist == IF stop_waypoint # -1
                     THEN distance(wps, next_wp, stop_waypoint) ELSE -1
    IN  IF stop_waypoint # -1 /\ StopSelected(stop_dist, v)
        THEN LET r == generate_stop_trajectory(slice, stop_dist, vehicle_position,
                                               stop_x, stop_y, v)
             IN  [final_waypoints |-> r.waypoints, stop_a |-> r.a]
        ELSE [final_waypoints |-> generate_keep_trajectory(slice, v, TARGET_V),
              stop_a |-> RInt(-1)]

\* C15: generating the trajectory again from identical inputs, on the route
\* whose waypoints carry the velocities the first run wrote, yields the
\* identical trajectory and feed-forward deceleration.
C15_Idempotent ==
    (KeepTick \/ StopTick) =>
        /\ Rerun.final_waypoints = Traj
        /\ Some(Rerun.stop_a) = pub.stop_a

\* C15 witness: a trajectory has been generated and the velocities it wrote
\* into the route differ from the ones the route was loaded with
C15_Witness ==
    /\ KeepTick \/ StopTick
    /\ Len(Traj) >= 2
    /\ \E i \in 1..Len(Traj) : Traj[i].v2 # RInt(16)
    /\ \E k \in 1..Len(Val(waypoints)) : Val(waypoints)[k].v2 # RInt(16)

\* C16: the published trajectory is the route waypoints s .. min(s +
\* LOOKAHEAD_WPS, N) - 1 in route order for the nearest index s, so it has
\* min(LOOKAHEAD_WPS, N - s) waypoints: never more than LOOKAHEAD_WPS, never
\* none, never wrapped past the route end.
C16_HorizonSlice ==
    (Ran /\ pub.final_waypoints # None) =>
        LET N == Len(Val(waypoints))
            s == tick.next_wp
            last == IF s + LOOKAHEAD_WPS < N THEN s + LOOKAHEAD_WPS ELSE N
        IN  /\ Len(Traj) = last - s
            /\ Len(Traj) = IF LOOKAHEAD_WPS < N - s THEN LOOKAHEAD_WPS ELSE N - s
            /\ Len(Traj) >= 1
            /\ Len(Traj) <= LOOKAHEAD_WPS
            /\ \A i \in 1..Len(Traj) : Traj[i] = Val(waypoints)[s + i]

\* C16 witness: the route has more waypoints from the nearest index on than
\* the horizon holds
C16_Witness ==
    /\ Ran
    /\ pub.final_waypoints # None
    /\ Len(Val(waypoints)) - tick.next_wp > LOOKAHEAD_WPS
    /\ Len(Traj) = LOOKAHEAD_WPS

C16_WitnessShort ==
    /\ Ran
    /\ pub.final_waypoints # None
    /\ Len(Val(waypoints)) > LOOKAHEAD_WPS
    /\ Len(Traj) < LOOKAHEAD_WPS

\* C19: the index get_closest_waypoint_idx returns and publishes is one of
\* 0 .. n-1; with nearest waypoint 0 the passed-test takes waypoint n-1 as
\* the previous one, and with nearest waypoint n-1 passed the index is 0.
C19_IndexInRangeCyclic ==
    Ran =>
        LET pts == Val(waypoints_2d)
            n == Len(pts)
            c == tick.closest_idx
            passed(prev) ==
                (pts[c + 1][1] - pts[prev + 1][1]) * (vehicle_position[1] - pts[c + 1][1])
              + (pts[c + 1][2] - pts[prev + 1][2]) * (vehicle_position[2] - pts[c + 1][2]) > 0
        IN  /\ tick.next_wp \in 0..(n - 1)
            /\ pub.closest_waypoint = Some(tick.next_wp)
            /\ c = 0 => (tick.next_wp # c <=> passed(n - 1))
            /\ (c = n - 1 /\ passed(n - 2)) => tick.next_wp = 0

\* C19 witness: the nearest waypoint is the last one and has been passed
C19_Witness ==
    /\ Ran
    /\ tick.closest_idx = Len(Val(waypoints_2d)) - 1
    /\ tick.next_wp = 0
    /\ pub.closest_waypoint = Some(0)

C19_WitnessFirst ==
    /\ Ran
    /\ tick.closest_idx = 0
    /\ tick.next_wp = 1

\* C20: when a stop trajectory is selected with the vehicle nearer than 3 m
\* to the stop-line point, the deceleration used and returned is 1 whatever
\* the current velocity and the stop distance are, and no division by the
\* current velocity is evaluated (velocity 0 raises no fault).
C20_NearLineDecel ==
    (Ran /\ stop_waypoint # -1 /\ WithinStopRange(tick.stop_dist)
         /\ NearStopLine(vehicle_position, stop_x, stop_y)) =>
        /\ StopTick
        /\ pc # "crashed"
        /\ tick.a = RInt(NEAR_LINE_DECEL)
        /\ pub.stop_a = Some(RInt(NEAR_LINE_DECEL))
        /\ \A i \in 2..Len(Traj) :
              LET q == Traj[i - 1].v2[1] - 2 * NEAR_LINE_DECEL * SegLen(i - 1) * Traj[i - 1].v2[2]
              IN  Traj[i].v2 = IF q > 0 THEN Rat(q, Traj[i - 1].v2[2]) ELSE RInt(0)

\* C20 witness: near the stop line at velocity 0, and at a velocity above 0
\* with stop distance above 0
C20_Witness ==
    /\ StopTick
    /\ NearStopLine(vehicle_position, stop_x, stop_y)
    /\ v = 0

C20_WitnessMoving ==
    /\ StopTick
    /\ NearStopLine(vehicle_position, stop_x, stop_y)
    /\ v > 0
    /\ tick.stop_dist > 0
    /\ Len(Traj) >= 2
    /\ RLt(RInt(0), Traj[2].v2)

(* DBWNode *)

\* the iteration of DBWNode.loop has reached rate.sleep()
DbwRan == dbw_pc = "sleep"

\* C12: on a control tick where the control-authority flag is false the node
\* publishes no throttle, brake or steering command; on a tick where it is
\* true it publishes exactly one of each, each with enable set to true.
C12_CommandsIffEnabled ==
    DbwRan =>
        IF hist.enabled
        THEN \A c \in {cmds.throttle, cmds.brake, cmds.steer} :
                Len(c) = 1 /\ c[1].enable = TRUE
        ELSE \A c \in {cmds.throttle, cmds.brake, cmds.steer} : Len(c) = 0

C12_Witness ==
    DbwRan /\ hist.enabled /\ Len(cmds.brake) = 1 /\ Val(cmds.brake).cmd > 0

C12_WitnessDisabled ==
    DbwRan /\ ~hist.enabled /\ hist.prev_enabled /\ cmds = NoCmds

\* the iteration is the first enabled one after a disabled one, and error
\* integrated before the disabled one is still held
Resumed == DbwRan /\ hist.iter = 2 /\ hist.enabled /\ ~hist.prev_enabled

\* C13: after Enabled -> Disabled -> Enabled with nonzero error integrated
\* before disabling, the first command emitted after re-enabling does not
\* reflect error integrated before the disable: it is the command a freshly
\* reset controller computes from this tick's inputs.
C13_ResetOnResume ==
    (Resumed /\ hist.residual # 0) =>
        Val(cmds.throttle).cmd =
            control([integral |-> 0], dbw_loc.args).throttle

\* C14: the elapsed time handed to the controller is the nominal step on the
\* first iteration and the difference of the time stamps of this iteration
\* and the previous one on every later iteration, whether or not the
\* previous iteration was enabled.
C14_ElapsedTime ==
    DbwRan =>
        /\ dt = IF hist.iter = 1 THEN NOMINAL_DT ELSE hist.stamp - hist.prev_stamp
        /\ dbw_loc.called => dbw_loc.args.dt = dt

C14_Witness ==
    DbwRan /\ hist.iter = 1 /\ dbw_loc.called /\ dbw_loc.args.dt = NOMINAL_DT

C14_WitnessAfterDisabled ==
    /\ DbwRan /\ hist.iter = 2 /\ dbw_loc.called /\ ~hist.prev_enabled
    /\ dbw_loc.args.dt # NOMINAL_DT

\* C18: within one control tick the inputs form one snapshot under every
\* interleaving of dbw_cb and twist_cb with the loop: the enabled value
\* passed to the controller is the value that was tested, and the goal
\* linear and angular velocity passed come from the same twist message
\* (every message of TwistMsgs, and the initial state, carries equal linear
\* and angular values, so values of one message are equal).
C18_ControlSnapshot ==
    (DbwRan /\ dbw_loc.called) =>
        /\ dbw_loc.args.enabled = dbw_loc.tested
        /\ dbw_loc.args.goal_linear_v = dbw_loc.args.goal_angular_v

\* the controller is invoked with enabled false on a tick that publishes
C18_TornEnabled ==
    DbwRan /\ dbw_loc.called /\ dbw_loc.tested /\ ~dbw_loc.args.enabled
        /\ Len(cmds.throttle) = 1

\* the goal velocities passed come from two twist messages
C18_TornTwist ==
    DbwRan /\ dbw_loc.called /\ dbw_loc.args.goal_linear_v = 2
        /\ dbw_loc.args.goal_angular_v = 1

(* WaypointUpdater on threads *)

\* C11: within one planning tick every use of current velocity, vehicle
\* position and stop hint sees one snapshot, whatever callbacks run between
\* its statements: the velocity of the stop decision is the velocity of the
\* stop trajectory, the position located is the position measured against the
\* stop line, the stop index tested is the stop index measured to, and the
\* stop index and the stop-line point (stop_x, stop_y) used come from one
\* stop-hint message.
C11_TickSnapshot ==
    (pc = "sleep" /\ tick.branch = "stop") =>
        /\ wu_loc.v_decide = wu_loc.v_stop
        /\ wu_loc.pos = wu_loc.pos_line
        /\ wu_loc.stop_test = wu_loc.stop_idx
        /\ <<wu_loc.stop_idx, wu_loc.sx, wu_loc.sy>> \in TrafficMsgs

\* a stop tick whose stop index and stop line come from two messages
C11_TornStopHint ==
    /\ pc = "sleep" /\ tick.branch = "stop"
    /\ wu_loc.stop_test = wu_loc.stop_idx
    /\ <<wu_loc.stop_idx, wu_loc.sx, wu_loc.sy>> \notin TrafficMsgs

\* a stop tick decided at one velocity and generated from another
C11_TornVelocity ==
    pc = "sleep" /\ tick.branch = "stop" /\ wu_loc.v_decide # wu_loc.v_stop

\* C17: under every interleaving of the route-load callback with the
\* planning loop a tick either is skipped or runs against a route list, a
\* coordinate list and a spatial index of one route load: it never queries
\* an unset spatial index and never combines the list of one load with the
\* index of another.
C17_RouteSnapshot ==
    (pc \in {"sleep", "crashed"} /\ tick.branch # "skip") =>
        /\ wu_loc.tree # None
        /\ wu_loc.wps2d = wu_loc.tree
        /\ wu_loc.wps # None
        /\ Coords2d(Val(wu_loc.wps)) = Val(wu_loc.tree)

\* a tick that queried the spatial index before the first load set it
C17_UnsetIndex ==
    pc = "crashed" /\ waypoints # None /\ waypoints_tree = None /\ wu_loc.tree = None

\* a tick that published the slice of one load at the index of another
C17_MixedLoads ==
    /\ pc = "sleep" /\ tick.branch = "keep"
    /\ Len(Val(wu_loc.wps)) # Len(Val(wu_loc.tree))

============================================================================
